---------------------------- MODULE Spec2Model ----------------------------
(*************************************************************************)
(* Model of the smart-wallet front end (src/app/page.tsx): the           *)
(* SmartWallet component (createAccount, transfer, the form controls)    *)
(* and the sponsored transfer executor transferUSDC.                     *)
(*************************************************************************)
EXTENDS Integers, Sequences, FiniteSets, Bags, TLC

(*************************************************************************)
(* Arithmetic.  JavaScript bigint values are unbounded naturals and      *)
(* JavaScript numbers are IEEE-754 doubles; both exceed the integers of  *)
(* the model checker, so naturals are kept as little-endian sequences of *)
(* limbs and a double as a mantissa m and a binary exponent e, standing  *)
(* for m * 2^e, with m of at most MantissaBits bits.                     *)
(*************************************************************************)
LimbBits == 10

LimbBase == 2 ^ LimbBits

MantissaBits == 53

RECURSIVE BStrip(_)
BStrip(x) ==
    IF x = <<>> THEN x
    ELSE IF x[Len(x)] = 0 THEN BStrip(SubSeq(x, 1, Len(x) - 1)) ELSE x

RECURSIVE BFromInt(_)
BFromInt(n) ==
    IF n = 0 THEN <<>> ELSE <<n % LimbBase>> \o BFromInt(n \div LimbBase)

RECURSIVE BToInt(_)
BToInt(x) ==
    IF x = <<>> THEN 0 ELSE x[1] + LimbBase * BToInt(Tail(x))

RECURSIVE BMulCarry(_, _, _)
BMulCarry(x, k, c) ==
    IF x = <<>> THEN BFromInt(c)
    ELSE LET t == x[1] * k + c
         IN  <<t % LimbBase>> \o BMulCarry(Tail(x), k, t \div LimbBase)

BMulSmall(x, k) == BStrip(BMulCarry(x, k, 0))

BAddSmall(x, k) == BStrip(BMulCarry(x, 1, k))

RECURSIVE BDivStep(_, _, _, _)
BDivStep(x, k, i, r) ==
    IF i = 0 THEN [q |-> <<>>, r |-> r]
    ELSE LET t    == r * LimbBase + x[i]
             rest == BDivStep(x, k, i - 1, t % k)
         IN  [q |-> rest.q \o <<t \div k>>, r |-> rest.r]

BDivSmall(x, k) ==
    LET d == BDivStep(x, k, Len(x), 0) IN [q |-> BStrip(d.q), r |-> d.r]

RECURSIVE IntBitLen(_)
IntBitLen(n) == IF n = 0 THEN 0 ELSE 1 + IntBitLen(n \div 2)

BBitLen(x) ==
    IF x = <<>> THEN 0 ELSE LimbBits * (Len(x) - 1) + IntBitLen(x[Len(x)])

RECURSIVE BLessFrom(_, _, _)
BLessFrom(x, y, i) ==
    IF i = 0 THEN FALSE
    ELSE IF x[i] # y[i] THEN x[i] < y[i] ELSE BLessFrom(x, y, i - 1)

BLess(x, y) ==
    IF Len(x) # Len(y) THEN Len(x) < Len(y) ELSE BLessFrom(x, y, Len(x))

BLeq(x, y) == ~BLess(y, x)

ChunkBits == 2 * LimbBits

RECURSIVE BShiftLeft(_, _)
BShiftLeft(x, s) ==
    IF s = 0 THEN x
    ELSE LET c == IF s <= ChunkBits THEN s ELSE ChunkBits
         IN  BShiftLeft(BMulSmall(x, 2 ^ c), s - c)

BPow2(s) == BShiftLeft(<<1>>, s)

RECURSIVE BAddCarry(_, _, _)
BAddCarry(x, y, c) ==
    IF x = <<>> /\ y = <<>> THEN BFromInt(c)
    ELSE LET a == IF x = <<>> THEN 0 ELSE x[1]
             b == IF y = <<>> THEN 0 ELSE y[1]
             t == a + b + c
         IN  <<t % LimbBase>> \o
             BAddCarry(IF x = <<>> THEN x ELSE Tail(x),
                       IF y = <<>> THEN y ELSE Tail(y), t \div LimbBase)

BAdd(x, y) == BStrip(BAddCarry(x, y, 0))

\* x shifted right until at most ChunkBits bits are left to shift, with
\* st telling whether a bit that was shifted out was set
RECURSIVE ShiftSticky(_, _, _)
ShiftSticky(q, s, st) ==
    IF s <= ChunkBits THEN [q |-> q, s |-> s, st |-> st]
    ELSE LET d == BDivSmall(q, 2 ^ ChunkBits)
         IN  ShiftSticky(d.q, s - ChunkBits, st \/ d.r # 0)

BOdd(x) == x # <<>> /\ x[1] % 2 = 1

\* the quotient d.q, rounded up when the remainder d.r is above half, or
\* is half and either a lower bit was set or the quotient is odd
RoundUp(d, half, st) ==
    IF d.r > half \/ (d.r = half /\ (st \/ BOdd(d.q)))
    THEN BAddSmall(d.q, 1) ELSE d.q

RoundChunk(c) == RoundUp(BDivSmall(c.q, 2 ^ c.s), 2 ^ (c.s - 1), c.st)

\* x / 2^s rounded to the nearest integer, ties to even
RoundHalfEven(x, s) ==
    IF s = 0 THEN x ELSE RoundChunk(ShiftSticky(x, s, FALSE))

\* a rounded mantissa that has carried into one more bit is halved
Renormalize(m, e) ==
    IF BBitLen(m) > MantissaBits
    THEN [m |-> BDivSmall(m, 2).q, e |-> e + 1]
    ELSE [m |-> m, e |-> e]

ToDoubleLen(x, e, len) ==
    IF len <= MantissaBits THEN [m |-> x, e |-> e]
    ELSE Renormalize(RoundHalfEven(x, len - MantissaBits),
                     e + len - MantissaBits)

\* the double nearest to x * 2^e
ToDouble(x, e) == ToDoubleLen(x, e, BBitLen(x))

\* Number(x) of a bigint x
Number(x) == ToDouble(x, 0)

\* BigInt(d) of a double d: a RangeError unless d is an integer
RECURSIVE BigIntHalve(_, _)
BigIntHalve(m, s) ==
    IF s = 0 THEN [ok |-> TRUE, value |-> m]
    ELSE LET c == IF s <= ChunkBits THEN s ELSE ChunkBits
             d == BDivSmall(m, 2 ^ c)
         IN  IF d.r # 0 THEN [ok |-> FALSE, value |-> <<>>]
             ELSE BigIntHalve(d.q, s - c)

BigInt(d) ==
    IF d.m = <<>> THEN [ok |-> TRUE, value |-> <<>>]
    ELSE IF d.e >= 0 THEN [ok |-> TRUE, value |-> BShiftLeft(d.m, d.e)]
    ELSE BigIntHalve(d.m, 0 - d.e)

\* Math.max of two doubles that hold non-negative integers
MathMax(a, b) == IF BLess(BigInt(a).value, BigInt(b).value) THEN b ELSE a

\* product of a double and an integer constant k, rounded to a double
DoubleTimes(a, k) == ToDouble(BMulSmall(a.m, k), a.e)

RECURSIVE Pow10(_)
Pow10(d) == IF d = 0 THEN 1 ELSE 10 * Pow10(d - 1)

\* smallest scaling t = n * 2^j whose quotient by k has MantissaBits bits
RECURSIVE ScaleUp(_, _, _)
ScaleUp(t, k, j) ==
    IF BBitLen(BDivSmall(t, k).q) >= MantissaBits THEN [t |-> t, j |-> j]
    ELSE ScaleUp(BMulSmall(t, 2), k, j + 1)

\* the quotient dv of n * 2^j by k, rounded to nearest, ties to even
RoundQuotient(dv, k, j) ==
    ToDouble(IF 2 * dv.r > k \/ (2 * dv.r = k /\ BOdd(dv.q))
             THEN BAddSmall(dv.q, 1) ELSE dv.q,
             0 - j)

DivideScaled(sc, k) == RoundQuotient(BDivSmall(sc.t, k), k, sc.j)

ScaleFrom(n, k, j0) ==
    DivideScaled(ScaleUp(BShiftLeft(BFromInt(n), j0), k, j0), k)

\* the double nearest to the decimal n / 10^d
DecimalToDouble(n, d) ==
    IF n = 0 THEN [m |-> <<>>, e |-> 0]
    ELSE ScaleFrom(n, Pow10(d),
                   MantissaBits - 2 - IntBitLen(n) + IntBitLen(Pow10(d)))

(*************************************************************************)
(* Strings of the amount field are sequences of characters.              *)
(*************************************************************************)
Digits == <<"0", "1", "2", "3", "4", "5", "6", "7", "8", "9">>

IsDigit(c) == \E i \in 1..10 : Digits[i] = c

DigitVal(c) == (CHOOSE i \in 1..10 : Digits[i] = c) - 1

RECURSIVE DigitsToInt(_, _)
DigitsToInt(s, acc) ==
    IF s = <<>> THEN acc ELSE DigitsToInt(Tail(s), 10 * acc + DigitVal(s[1]))

\* position of the decimal point of s, or Len(s) + 1 when it has none
PointPos(s) ==
    IF \E i \in 1..Len(s) : s[i] = "."
    THEN CHOOSE i \in 1..Len(s) : s[i] = "."
    ELSE Len(s) + 1

\* the decimal literal s with its point at position p
ParseDecimal(s, p) ==
    DecimalToDouble(
        DigitsToInt(SubSeq(s, 1, p - 1) \o SubSeq(s, p + 1, Len(s)), 0),
        IF p > Len(s) THEN 0 ELSE Len(s) - p)

\* parseFloat(s) of a decimal literal s
parseFloat(s) == ParseDecimal(s, PointPos(s))

(*************************************************************************)
(* Byte strings (viem Hex values) are sequences of bytes.                *)
(*************************************************************************)
Zeros(n) == [i \in 1..n |-> 0]

RECURSIVE ToBytes(_, _)
\* the integer n as len bytes, big-endian
ToBytes(n, len) ==
    IF len = 0 THEN <<>> ELSE ToBytes(n \div 256, len - 1) \o <<n % 256>>

RECURSIVE FromBytes(_)
FromBytes(b) ==
    IF b = <<>> THEN 0 ELSE 256 * FromBytes(SubSeq(b, 1, Len(b) - 1)) + b[Len(b)]

WordLen == 32

AddressLen == 20

ARBITRUM_SEPOLIA_USDC ==
    <<117, 250, 241, 20, 234, 251, 27, 219, 226, 240,
      49, 109, 248, 147, 253, 88, 206, 70, 170, 77>>

ARBITRUM_SEPOLIA_PAYMASTER ==
    <<124, 93, 135, 107, 68, 111, 63, 31, 8, 226,
      211, 81, 61, 144, 98, 230, 129, 196, 56, 140>>

MAX_GAS_USDC == 1000000

\* encodePacked(['uint8', 'address', 'uint256', 'bytes'], [r, token, max, sig])
encodePacked(r, token, max, sig) ==
    ToBytes(r, 1) \o token \o ToBytes(max, WordLen) \o sig

\* the ERC-6492 magic suffix, 0x6492 repeated over one word
Erc6492Magic == [i \in 1..WordLen |-> IF i % 2 = 1 THEN 100 ELSE 146]

PaddedLen(n) == ((n + WordLen - 1) \div WordLen) * WordLen

PadRight(b) == b \o Zeros(PaddedLen(Len(b)) - Len(b))

\* encodeAbiParameters([address, bytes, bytes], [addr, data, sig])
AbiEncode(addr, data, sig) ==
    Zeros(WordLen - AddressLen) \o addr
    \o ToBytes(3 * WordLen, WordLen)
    \o ToBytes(4 * WordLen + PaddedLen(Len(data)), WordLen)
    \o ToBytes(Len(data), WordLen) \o PadRight(data)
    \o ToBytes(Len(sig), WordLen) \o PadRight(sig)

\* the third parameter of decodeAbiParameters([address, bytes, bytes], b)
AbiDecodeThird(b) ==
    LET off == FromBytes(SubSeq(b, 2 * WordLen + 1, 3 * WordLen))
        len == FromBytes(SubSeq(b, off + 1, off + WordLen))
    IN  SubSeq(b, off + WordLen + 1, off + WordLen + len)

\* a signature in its ERC-6492 wrapper, as an undeployed account returns it
Erc6492Wrap(factory, factoryData, sig) ==
    AbiEncode(factory, factoryData, sig) \o Erc6492Magic

isErc6492Signature(sig) ==
    /\ Len(sig) >= WordLen
    /\ SubSeq(sig, Len(sig) - WordLen + 1, Len(sig)) = Erc6492Magic

\* the signature packed as it was returned, wrapper included
KeepWrappedSignature(sig) == sig

\* parseErc6492Signature(sig).signature
parseErc6492Signature(sig) ==
    IF isErc6492Signature(sig) THEN AbiDecodeThird(sig) ELSE sig

(*************************************************************************)
(* Bounds of the model and the values the environment answers with.      *)
(*************************************************************************)
MaxInFlight == 2

MaxTransfers == 2

MaxDeposits == 1

DepositAmount == 20000000

GasFeeUsdc == 2500

InvIds == 1..MaxInFlight

\* keys generatePrivateKey may return, as strings of characters
PrivateKeys == {<<"0", "x", "a">>, <<"0", "x", "b">>}

RecipientStrings == {"", "0xR"}

AmountStrings ==
    {<<>>, <<"0">>, <<"4", ".", "1">>, <<"1", "0", ".", "5">>}

FactoryData == <<190, 239>>

\* values the paymaster may report as additionalGasCharge()
GasCharges == {BFromInt(50000), BAddSmall(BPow2(MantissaBits), 1)}

\* values the bundler may estimate as paymasterPostOpGasLimit
GasEstimates == {BFromInt(70000)}

(*************************************************************************)
(* Accounts.                                                             *)
(*************************************************************************)
Null == <<>>

KernelVersion == "0.3.1"

\* privateKeyToAccount(key).address
privateKeyToAccount(key) == <<"owner", key>>

\* toEcdsaKernelSmartAccount({owners: [owner], version}).address
toEcdsaKernelSmartAccount(owner, version) == <<"kernel", version, owner>>

SmartAccounts ==
    {toEcdsaKernelSmartAccount(privateKeyToAccount(k), KernelVersion) :
        k \in PrivateKeys}

\* privateKey.slice(2), stored without the 0x put back in front
StoredKeyWithoutPrefix(privateKey) == SubSeq(privateKey, 3, Len(privateKey))

\* `0x${privateKey.slice(2)}`
StoredKey(privateKey) == <<"0", "x">> \o SubSeq(privateKey, 3, Len(privateKey))

(*************************************************************************)
(* The amount conversion of transfer.                                    *)
(*************************************************************************)
IsDecimalLiteral(s) ==
    /\ s # <<>>
    /\ \A i \in 1..Len(s) : IsDigit(s[i]) \/ s[i] = "."
    /\ Cardinality({i \in 1..Len(s) : s[i] = "."}) <= 1
    /\ \E i \in 1..Len(s) : IsDigit(s[i])

\* the digits of the natural n
RECURSIVE IntToDigits(_)
IntToDigits(n) ==
    IF n < 10 THEN <<Digits[n + 1]>>
    ELSE IntToDigits(n \div 10) \o <<Digits[(n % 10) + 1]>>

PadStart(s, len) == [k \in 1..(len - Len(s)) |-> "0"] \o s

RECURSIVE StripZeros(_)
StripZeros(s) ==
    IF s # <<>> /\ s[Len(s)] = "0" THEN StripZeros(SubSeq(s, 1, Len(s) - 1))
    ELSE s

JoinUnits(integer, fraction) ==
    (IF integer = <<>> THEN <<"0">> ELSE integer)
    \o (IF fraction = <<>> THEN <<>> ELSE <<".">> \o fraction)

SplitUnits(display, decimals) ==
    JoinUnits(SubSeq(display, 1, Len(display) - decimals),
              StripZeros(SubSeq(display, Len(display) - decimals + 1,
                                Len(display))))

\* formatUnits(value, decimals) of a natural value
formatUnits(value, decimals) ==
    SplitUnits(PadStart(IntToDigits(value), decimals), decimals)

\* the decimal literal s in units of 10^-6, exactly
MicroUnits(s, p) ==
    DigitsToInt(SubSeq(s, 1, p - 1) \o SubSeq(s, p + 1, Len(s)), 0)
    * Pow10(6 - (IF p > Len(s) THEN 0 ELSE Len(s) - p))

ExactMicro(s) == MicroUnits(s, PointPos(s))

Converted(b) ==
    [ok |-> b.ok, value |-> IF b.ok THEN BToInt(b.value) ELSE 0]

\* BigInt(parseFloat(amount) * 1000000); parseFloat gives NaN for a string
\* that does not start with a number, and BigInt(NaN) throws
AmountInWei(s) ==
    IF ~IsDecimalLiteral(s) THEN [ok |-> FALSE, value |-> 0]
    ELSE Converted(BigInt(DoubleTimes(parseFloat(s), 1000000)))

\* the conversion of every string the amount field can hold, computed once
AmountConversions == [s \in AmountStrings |-> AmountInWei(s)]

(*************************************************************************)
(* State.                                                                *)
(*   loading, account, recipientAddress, amount, status: the useState    *)
(*     cells of SmartWallet; tab: the selected tab of the Tabs control   *)
(*   amountInWei: the last conversion made by transfer, with its input   *)
(*   ca: the createAccount invocation; tx: the transferUSDC invocations  *)
(*   balanceOf: the USDC balances on chain                               *)
(*   orphans: the user operations the bundler still holds of invocations *)
(*     that were rejected while waiting for the receipt, each as its     *)
(*     account, recipient and amount;                                    *)
(*   invocations, submissions, preFailures, deposits: counters of        *)
(*     transferUSDC calls, of user operations the bundler accepted, of   *)
(*     calls rejected before their submission, and of deposits           *)
(*************************************************************************)
VARIABLES loading, account, recipientAddress, amount, status, tab,
          amountInWei, ca, tx, balanceOf,
          invocations, submissions, preFailures, deposits, orphans

vars == <<loading, account, recipientAddress, amount, status, tab,
          amountInWei, ca, tx, balanceOf,
          invocations, submissions, preFailures, deposits, orphans>>

IdleCa == [pc |-> "idle", privateKey |-> <<>>, owner |-> <<>>]

NoRequest == [sent |-> FALSE, account |-> <<>>, paymasterData |-> <<>>,
              paymasterPostOpGasLimit |-> <<>>]

IdleTx ==
    [pc |-> "idle", direct |-> FALSE, failedAt |-> "", steps |-> <<>>,
     privateKey |-> <<>>, recipient |-> "", amount |-> 0,
     account |-> <<>>,
     permitData |-> [ownerAddress |-> <<>>, spenderAddress |-> <<>>,
                     value |-> 0],
     wrappedPermitSignature |-> <<>>, permitSignature |-> <<>>,
     calls |-> [to |-> <<>>, functionName |-> "", args |-> <<>>],
     paymasterData |-> <<>>,
     additionalGasCharge |-> <<>>, paymasterPostOpGasLimit |-> <<>>,
     estimateRequest |-> NoRequest, sendRequest |-> NoRequest,
     op |-> "none", receipt |-> [success |-> FALSE],
     usdcBalanceBefore |-> 0, usdcBalanceAfter |-> 0, usdcConsumed |-> 0,
     balanceAtStart |-> 0, balanceAtEnd |-> 0, touched |-> FALSE]

Init ==
    /\ loading = FALSE
    /\ account = Null
    /\ recipientAddress = ""
    /\ amount = <<>>
    /\ status = ""
    /\ tab = "create"
    /\ amountInWei = [input |-> <<>>, ok |-> FALSE, value |-> 0]
    /\ ca = IdleCa
    /\ tx = [i \in InvIds |-> IdleTx]
    /\ balanceOf = [a \in SmartAccounts |-> 0]
    /\ invocations = 0
    /\ submissions = 0
    /\ preFailures = 0
    /\ deposits = 0
    /\ orphans = EmptyBag

(*************************************************************************)
(* The awaits of transferUSDC, in program order.  An invocation is at    *)
(* one of them while it runs.                                            *)
(*************************************************************************)
\* the submission moved before the gas estimation
AwaitOrderSendBeforeEstimate ==
    <<"derive", "permit", "sign", "surcharge", "fees", "send", "estimate",
      "wait", "balanceBefore", "balanceAfter">>

AwaitOrder ==
    <<"derive", "permit", "sign", "surcharge", "fees", "estimate", "send",
      "wait", "balanceBefore", "balanceAfter">>

Awaits == {AwaitOrder[k] : k \in 1..Len(AwaitOrder)}

\* the transfer call built only after the paymaster data was packed
StatementsCallAfterPack ==
    [pc \in Awaits |->
        CASE pc = "sign" -> <<"sign", "unwrap", "pack", "call">>
          [] pc = "balanceBefore" -> <<"readBefore">>
          [] pc = "balanceAfter" -> <<"readAfter", "consumed">>
          [] OTHER -> <<pc>>]

\* what transferUSDC does once the call awaited at pc has resolved, up to
\* the next await: after the signature, it is unwrapped, the transfer call
\* is built and the paymaster data packed; after the second balance read,
\* usdcConsumed is computed
Statements ==
    [pc \in Awaits |->
        CASE pc = "sign" -> <<"sign", "unwrap", "call", "pack">>
          [] pc = "balanceBefore" -> <<"readBefore">>
          [] pc = "balanceAfter" -> <<"readAfter", "consumed">>
          [] OTHER -> <<pc>>]

\* everything an invocation that completed the awaits in steps has done
RECURSIVE Performed(_)
Performed(steps) ==
    IF steps = <<>> THEN <<>>
    ELSE Performed(SubSeq(steps, 1, Len(steps) - 1))
         \o Statements[steps[Len(steps)]]

PosIn(seq, x) == CHOOSE k \in 1..Len(seq) : seq[k] = x

\* the await that follows await pc, or "returned" after the last one
NextPc(pc) ==
    LET k == PosIn(AwaitOrder, pc)
    IN  IF k = Len(AwaitOrder) THEN "returned" ELSE AwaitOrder[k + 1]

InFlight(i) == tx[i].pc \in Awaits

FreeSlot == CHOOSE i \in InvIds : ~InFlight(i) /\ \A j \in 1..(i - 1) : InFlight(j)

\* what is left of invocation record t once transferUSDC has settled: its
\* locals are gone, its outcome and the operation it submitted remain
Settled(t) ==
    [IdleTx EXCEPT !.pc = t.pc, !.failedAt = t.failedAt, !.steps = t.steps,
                   !.recipient = t.recipient, !.amount = t.amount,
                   !.account = t.account, !.op = t.op,
                   !.receipt = t.receipt,
                   !.usdcBalanceBefore = t.usdcBalanceBefore,
                   !.usdcBalanceAfter = t.usdcBalanceAfter,
                   !.usdcConsumed = t.usdcConsumed,
                   !.balanceAtStart = t.balanceAtStart,
                   !.balanceAtEnd = t.balanceAtEnd,
                   !.touched = t.touched]

\* the rejected await tried again instead of thrown to the caller
RetriedAwait(t) == t

\* the record of an invocation that rejected at the await t is at: nothing
\* is returned, and what the bundler holds of it is kept apart
Rejected(t) ==
    [IdleTx EXCEPT !.pc = "rejected", !.failedAt = t.pc, !.steps = t.steps,
                   !.op = IF t.op = "pending" THEN "unknown" ELSE t.op]

\* invocation record t moved past the await it is at
Step(t) == [t EXCEPT !.pc = NextPc(t.pc), !.steps = Append(t.steps, t.pc)]

(*************************************************************************)
(* The controls of the page.                                             *)
(*************************************************************************)
\* the Transfer tab left enabled without an account
TransferTabNeverDisabled == FALSE

\* TabsTrigger value="transfer" disabled={!account}
TransferTabDisabled == account = Null

\* the Create Smart Account button rendered whether or not an account is
\* stored
CreateButtonAlwaysShown == TRUE

\* the Create Smart Account button is rendered when !account
CreateButtonShown == account = Null

\* Create Smart Account button, disabled={loading}
CreateDisabled == loading

\* the Transfer USDC button without the loading flag in its disabled
TransferDisabledIgnoringLoading == recipientAddress = "" \/ amount = <<>>

\* Transfer USDC button, disabled={loading || !recipientAddress || !amount}
TransferDisabled == loading \/ recipientAddress = "" \/ amount = <<>>

SelectTab(t) ==
    /\ t # tab
    /\ t = "transfer" => ~TransferTabDisabled
    /\ tab' = t
    /\ UNCHANGED <<loading, account, recipientAddress, amount, status,
                   amountInWei, ca, tx, balanceOf, invocations, submissions, preFailures, deposits, orphans>>

EditRecipient(r) ==
    /\ tab = "transfer"
    /\ r # recipientAddress
    /\ recipientAddress' = r
    /\ UNCHANGED <<loading, account, amount, status, tab,
                   amountInWei, ca, tx, balanceOf, invocations, submissions, preFailures, deposits, orphans>>

EditAmount(a) ==
    /\ tab = "transfer"
    /\ a # amount
    /\ amount' = a
    /\ UNCHANGED <<loading, account, recipientAddress, status, tab,
                   amountInWei, ca, tx, balanceOf, invocations, submissions, preFailures, deposits, orphans>>

(*************************************************************************)
(* The catch and finally blocks of the two handlers, and the report of   *)
(* the receipt by transfer.                                              *)
(*************************************************************************)
\* the message of the error the awaited call at await pc rejects with
ErrorMessage(pc) == pc \o " rejected"

\* the message of the RangeError of BigInt, and of the TypeError of
\* account.privateKey without an account
ConversionError == "RangeError"

NoAccountError == "TypeError"

\* createAccount: catch (error)
CatchCreateAccount(message) ==
    status' = "Error creating smart account: " \o message

\* createAccount: finally
FinallyCreateAccount == loading' = FALSE

\* a catch that also empties the form
CatchTransferClearingForm(message) ==
    /\ status' = "Error during transfer: " \o message
    /\ recipientAddress' = ""
    /\ amount' = <<>>

\* transfer: catch (error)
CatchTransfer(message) ==
    /\ status' = "Error during transfer: " \o message
    /\ UNCHANGED <<recipientAddress, amount>>

\* transfer without its finally block
FinallyTransferMissing == UNCHANGED loading

\* transfer: finally
FinallyTransfer == loading' = FALSE

\* a report that empties the form after a failed receipt as well
ReportReceiptClearingForm(receipt) ==
    /\ status' = IF receipt.success THEN "Transfer completed successfully!"
                 ELSE "Transfer failed. Please try again."
    /\ recipientAddress' = ""
    /\ amount' = <<>>

\* transfer: if (receipt.success) ... else ...
ReportReceipt(receipt) ==
    IF receipt.success
    THEN /\ status' = "Transfer completed successfully!"
         /\ recipientAddress' = ""
         /\ amount' = <<>>
    ELSE /\ status' = "Transfer failed. Please try again."
         /\ UNCHANGED <<recipientAddress, amount>>

(*************************************************************************)
(* createAccount.                                                        *)
(*************************************************************************)
\* the click: the synchronous part up to the await of the derivation
ClickCreateAccount(k) ==
    /\ tab = "create"
    /\ CreateButtonShown
    /\ ~CreateDisabled
    /\ loading' = TRUE
    /\ status' = "Creating smart account..."
    /\ ca' = [pc |-> "deriving", privateKey |-> k,
              owner |-> privateKeyToAccount(k)]
    /\ UNCHANGED <<account, recipientAddress, amount, tab, amountInWei, tx,
                   balanceOf, invocations, submissions, preFailures,
                   deposits, orphans>>

\* the derivation resolves: setAccount, the success status, finally
CreateAccountResolve ==
    /\ ca.pc = "deriving"
    /\ account' = <<[address |->
                       toEcdsaKernelSmartAccount(ca.owner, KernelVersion),
                     owner |-> ca.owner,
                     privateKey |-> StoredKey(ca.privateKey)]>>
    /\ status' = "Smart account created successfully!"
    /\ FinallyCreateAccount
    /\ ca' = IdleCa
    /\ UNCHANGED <<recipientAddress, amount, tab, amountInWei, tx, balanceOf,
                   invocations, submissions, preFailures,
                   deposits, orphans>>

\* the derivation rejects: catch, finally
CreateAccountReject ==
    /\ ca.pc = "deriving"
    /\ CatchCreateAccount(ErrorMessage("derive"))
    /\ FinallyCreateAccount
    /\ ca' = IdleCa
    /\ UNCHANGED <<account, recipientAddress, amount, tab, amountInWei, tx,
                   balanceOf, invocations, submissions,
                   preFailures, deposits, orphans>>

(*************************************************************************)
(* transfer: the click handler of the Transfer USDC button, up to the    *)
(* first await of transferUSDC.  A conversion that throws, or a missing  *)
(* account, goes to catch and finally at once.                           *)
(*************************************************************************)
\* a transferUSDC that refuses to run beside another one for the same key
GuardedByKey(privateKey) ==
    \A j \in InvIds : InFlight(j) => tx[j].privateKey # privateKey

\* what transferUSDC checks before it starts: nothing, it creates its
\* clients and goes on to derive the account
TransferUSDCGuard(privateKey) == TRUE

\* the record of an invocation at its first await
Started(privateKey, recipient, amt) ==
    [IdleTx EXCEPT !.pc = AwaitOrder[1],
                   !.privateKey = privateKey,
                   !.recipient = recipient,
                   !.amount = amt,
                   !.balanceAtStart =
                       balanceOf[toEcdsaKernelSmartAccount(
                           privateKeyToAccount(privateKey),
                           KernelVersion)]]

\* the start of transferUSDC(privateKey, recipientAddress, amount)
StartTransferUSDC(i, privateKey, recipient, amt) ==
    /\ TransferUSDCGuard(privateKey)
    /\ tx' = [tx EXCEPT ![i] = Started(privateKey, recipient, amt)]
    /\ invocations' = invocations + 1

ClickTransfer ==
    /\ tab = "transfer"
    /\ ~TransferDisabled
    /\ invocations < MaxTransfers
    /\ \E i \in InvIds : ~InFlight(i)
    /\ \E conv \in {AmountConversions[amount]} :
           /\ amountInWei' = [input |-> amount, ok |-> conv.ok,
                              value |-> conv.value]
           /\ IF conv.ok /\ account # Null
              THEN /\ StartTransferUSDC(FreeSlot, account[1].privateKey,
                                        recipientAddress, conv.value)
                   /\ loading' = TRUE
                   /\ status' = "Initiating transfer..."
                   /\ UNCHANGED <<recipientAddress, amount>>
              ELSE /\ CatchTransfer(IF conv.ok THEN NoAccountError
                                    ELSE ConversionError)
                   /\ FinallyTransfer
                   /\ UNCHANGED <<tx, invocations>>
    /\ UNCHANGED <<account, tab, ca, balanceOf,
                   submissions, preFailures, deposits, orphans>>

(*************************************************************************)
(* transferUSDC: one action per await, modelling the awaited call        *)
(* resolving and the code that runs up to the next await.                *)
(*************************************************************************)
\* a permit that authorises the transferred amount instead of the ceiling
PermitDataOfAmount(t) ==
    [ownerAddress |-> t.account,
     spenderAddress |-> ARBITRUM_SEPOLIA_PAYMASTER,
     value |-> t.amount]

\* eip2612Permit({token, chain, ownerAddress, spenderAddress, value})
PermitData(t) ==
    [ownerAddress |-> t.account,
     spenderAddress |-> ARBITRUM_SEPOLIA_PAYMASTER,
     value |-> MAX_GAS_USDC]

\* the raw signature of typed data by the owner key: ECDSA signing is
\* deterministic, so it is a function of the key and of what is signed
SignTypedData(privateKey, data) ==
    <<IF privateKey = <<"0", "x", "a">> THEN 17 ELSE 51,
      data.value % 256, Len(data.ownerAddress) + 24>>

\* the paymasterData of the invocation with permit signature sig
PaymasterData(sig) ==
    encodePacked(0, ARBITRUM_SEPOLIA_USDC, MAX_GAS_USDC, sig)

\* BigInt(Math.max(Number(paymasterPostOpGasLimit), Number(additionalGasCharge)))
SubmittedPostOpGasLimit(estimate, charge) ==
    BigInt(MathMax(Number(estimate), Number(charge))).value

\* the limit submitted for every estimate and surcharge, computed once; an
\* unset field holds the empty sequence, which is the natural 0
PostOpGasLimits ==
    [e \in GasEstimates \cup {<<>>}, g \in GasCharges \cup {<<>>} |->
        SubmittedPostOpGasLimit(e, g)]

TxFrame ==
    UNCHANGED <<loading, account, recipientAddress, amount, status, tab,
                amountInWei, ca, balanceOf, invocations,
                submissions, preFailures, deposits, orphans>>

\* toEcdsaKernelSmartAccount resolves
DeriveAccount(i) ==
    /\ tx[i].pc = "derive"
    /\ tx' = [tx EXCEPT ![i] =
                [Step(@) EXCEPT !.account =
                    toEcdsaKernelSmartAccount(
                        privateKeyToAccount(tx[i].privateKey), KernelVersion)]]
    /\ TxFrame

\* eip2612Permit resolves
ConstructPermit(i) ==
    /\ tx[i].pc = "permit"
    /\ tx' = [tx EXCEPT ![i] =
                [Step(@) EXCEPT !.permitData = PermitData(tx[i])]]
    /\ TxFrame

\* account.signTypedData resolves with the signature of the permit, in an
\* ERC-6492 wrapper or not; the signature is unwrapped, the call and the
\* paymaster data are built
SignPermit(i, wrapped) ==
    /\ tx[i].pc = "sign"
    /\ LET sig == SignTypedData(tx[i].privateKey, tx[i].permitData)
           wrappedPermitSignature ==
               IF wrapped
               THEN Erc6492Wrap(ARBITRUM_SEPOLIA_PAYMASTER, FactoryData, sig)
               ELSE sig
           permitSignature == parseErc6492Signature(wrappedPermitSignature)
       IN  tx' = [tx EXCEPT ![i] =
                    [Step(@) EXCEPT
                       !.wrappedPermitSignature = wrappedPermitSignature,
                       !.permitSignature = permitSignature,
                       !.calls = [to |-> ARBITRUM_SEPOLIA_USDC,
                                  functionName |-> "transfer",
                                  args |-> <<tx[i].recipient, tx[i].amount>>],
                       !.paymasterData = PaymasterData(permitSignature)]]
    /\ TxFrame

\* client.call of additionalGasCharge() resolves with g
QuerySurcharge(i, g) ==
    /\ tx[i].pc = "surcharge"
    /\ tx' = [tx EXCEPT ![i] = [Step(@) EXCEPT !.additionalGasCharge = g]]
    /\ TxFrame

\* pimlico_getUserOperationGasPrice resolves
QueryFees(i) ==
    /\ tx[i].pc = "fees"
    /\ tx' = [tx EXCEPT ![i] = Step(@)]
    /\ TxFrame

\* estimateUserOperationGas, called with the paymaster data and the
\* surcharge, resolves with e as paymasterPostOpGasLimit
EstimateGas(i, e) ==
    /\ tx[i].pc = "estimate"
    /\ tx' = [tx EXCEPT ![i] =
                [Step(@) EXCEPT
                   !.estimateRequest =
                       [sent |-> TRUE,
                        account |-> tx[i].account,
                        paymasterData |-> tx[i].paymasterData,
                        paymasterPostOpGasLimit |-> tx[i].additionalGasCharge],
                   !.paymasterPostOpGasLimit = e]]
    /\ TxFrame

\* sendUserOperation resolves with a hash: the bundler holds the operation
SendUserOperation(i) ==
    /\ tx[i].pc = "send"
    /\ tx' = [tx EXCEPT ![i] =
                [Step(@) EXCEPT
                   !.sendRequest =
                       [sent |-> TRUE,
                        account |-> tx[i].account,
                        paymasterData |-> tx[i].paymasterData,
                        paymasterPostOpGasLimit |->
                            PostOpGasLimits[tx[i].paymasterPostOpGasLimit,
                                            tx[i].additionalGasCharge]],
                   !.op = "pending"]]
    /\ submissions' = submissions + 1
    /\ UNCHANGED <<loading, account, recipientAddress, amount, status, tab,
                   amountInWei, ca, balanceOf, invocations,
                   preFailures, deposits, orphans>>

\* every other invocation in flight sees its account's balance change
Touch(i) ==
    [j \in InvIds |->
        IF j # i /\ InFlight(j) THEN [tx[j] EXCEPT !.touched = TRUE]
        ELSE tx[j]]

\* the chain executes the pending operation of invocation i: the fee is
\* paid in USDC, and the transfer is made unless the call reverts
ExecuteUserOp(i, success) ==
    /\ tx[i].op = "pending"
    /\ LET a    == tx[i].account
           cost == IF success THEN tx[i].amount + GasFeeUsdc ELSE GasFeeUsdc
       IN  /\ balanceOf[a] >= cost
           /\ balanceOf' = [balanceOf EXCEPT ![a] = @ - cost]
    /\ tx' = [Touch(i) EXCEPT ![i] =
                [tx[i] EXCEPT !.op = IF success THEN "success" ELSE "reverted"]]
    /\ UNCHANGED <<loading, account, recipientAddress, amount, status, tab,
                   amountInWei, ca, invocations, submissions,
                   preFailures, deposits, orphans>>

\* waitForUserOperationReceipt resolves once the operation was executed
WaitForReceipt(i) ==
    /\ tx[i].pc = "wait"
    /\ tx[i].op \in {"success", "reverted"}
    /\ tx' = [tx EXCEPT ![i] =
                [Step(@) EXCEPT
                   !.receipt = [success |-> tx[i].op = "success"]]]
    /\ TxFrame

\* usdc.read.balanceOf resolves, for usdcBalanceBefore
ReadBalanceBefore(i) ==
    /\ tx[i].pc = "balanceBefore"
    /\ tx' = [tx EXCEPT ![i] =
                [Step(@) EXCEPT
                   !.usdcBalanceBefore = balanceOf[tx[i].account]]]
    /\ TxFrame

\* usdc.read.balanceOf resolves, for usdcBalanceAfter; usdcConsumed is
\* computed and the receipt returned to transfer, which sets the status,
\* clears the form after a success, and runs finally
ReadBalanceAfter(i) ==
    /\ tx[i].pc = "balanceAfter"
    /\ LET after == balanceOf[tx[i].account]
       IN  tx' = [tx EXCEPT ![i] =
                    Settled([Step(@) EXCEPT
                       !.usdcBalanceAfter = after,
                       !.usdcConsumed =
                           tx[i].usdcBalanceBefore - after - tx[i].amount,
                       !.balanceAtEnd = after])]
    /\ IF tx[i].direct
       THEN UNCHANGED <<status, recipientAddress, amount, loading>>
       ELSE ReportReceipt(tx[i].receipt) /\ FinallyTransfer
    /\ UNCHANGED <<account, tab, amountInWei, ca, balanceOf, invocations, submissions, preFailures, deposits, orphans>>

\* the steps of transferUSDC that come before sendUserOperation
PreSubmissionSteps ==
    {"derive", "permit", "sign", "surcharge", "fees", "estimate"}

\* the awaited call of invocation i rejects: transferUSDC rejects, and
\* transfer runs catch and finally
Reject(i) ==
    /\ InFlight(i)
    /\ orphans' = IF tx[i].op = "pending"
                   THEN orphans (+) SetToBag({<<tx[i].account, tx[i].recipient,
                                                 tx[i].amount>>})
                   ELSE orphans
    /\ tx' = [tx EXCEPT ![i] = Rejected(tx[i])]
    /\ preFailures' = IF tx[i].pc \in PreSubmissionSteps THEN preFailures + 1
                      ELSE preFailures
    /\ IF tx[i].direct
       THEN UNCHANGED <<status, recipientAddress, amount, loading>>
       ELSE CatchTransfer(ErrorMessage(tx[i].pc)) /\ FinallyTransfer
    /\ UNCHANGED <<account, tab, amountInWei, ca,
                   balanceOf, invocations, submissions, deposits>>

\* the chain executes an operation whose invocation was rejected while it
\* waited for the receipt: the client gave up, the bundler did not
ExecuteOrphan(o, success) ==
    /\ BagIn(o, orphans)
    /\ LET cost == IF success THEN o[3] + GasFeeUsdc ELSE GasFeeUsdc
       IN  /\ balanceOf[o[1]] >= cost
           /\ balanceOf' = [balanceOf EXCEPT ![o[1]] = @ - cost]
    /\ orphans' = orphans (-) SetToBag({o})
    /\ tx' = Touch(0)
    /\ UNCHANGED <<loading, account, recipientAddress, amount, status, tab,
                   amountInWei, ca, invocations, submissions,
                   preFailures, deposits>>

(*************************************************************************)
(* The environment: somebody else sends USDC to the smart account.       *)
(*************************************************************************)
Deposit ==
    /\ account # Null
    /\ deposits < MaxDeposits
    /\ deposits' = deposits + 1
    /\ balanceOf' = [balanceOf EXCEPT ![account[1].address] = @ + DepositAmount]
    /\ tx' = Touch(0)
    /\ UNCHANGED <<loading, account, recipientAddress, amount, status, tab,
                   amountInWei, ca, invocations, submissions,
                   preFailures, orphans>>

Next ==
    \/ \E t \in {"create", "transfer"} : SelectTab(t)
    \/ \E r \in RecipientStrings : EditRecipient(r)
    \/ \E a \in AmountStrings : EditAmount(a)
    \/ \E k \in PrivateKeys : ClickCreateAccount(k)
    \/ CreateAccountResolve
    \/ CreateAccountReject
    \/ ClickTransfer
    \/ \E i \in InvIds : DeriveAccount(i)
    \/ \E i \in InvIds : ConstructPermit(i)
    \/ \E i \in InvIds, w \in BOOLEAN : SignPermit(i, w)
    \/ \E i \in InvIds, g \in GasCharges : QuerySurcharge(i, g)
    \/ \E i \in InvIds : QueryFees(i)
    \/ \E i \in InvIds, e \in GasEstimates : EstimateGas(i, e)
    \/ \E i \in InvIds : SendUserOperation(i)
    \/ \E i \in InvIds, ok \in BOOLEAN : ExecuteUserOp(i, ok)
    \/ \E i \in InvIds : WaitForReceipt(i)
    \/ \E i \in InvIds : ReadBalanceBefore(i)
    \/ \E i \in InvIds : ReadBalanceAfter(i)
    \/ \E i \in InvIds : Reject(i)
    \/ \E o \in BagToSet(orphans), ok \in BOOLEAN : ExecuteOrphan(o, ok)
    \/ Deposit

Spec == Init /\ [][Next]_vars

\* the network call an invocation awaits resolves or rejects
NetworkCallSettles ==
    \/ CreateAccountResolve
    \/ CreateAccountReject
    \/ \E i \in InvIds :
          \/ DeriveAccount(i)
          \/ ConstructPermit(i)
          \/ SignPermit(i, FALSE)
          \/ QuerySurcharge(i, BFromInt(50000))
          \/ QueryFees(i)
          \/ \E e \in GasEstimates : EstimateGas(i, e)
          \/ SendUserOperation(i)
          \/ WaitForReceipt(i)
          \/ ReadBalanceBefore(i)
          \/ ReadBalanceAfter(i)
          \/ Reject(i)

\* the steps of the page with one answer per call: the key generated is
\* 0xa, the signature comes back unwrapped and the surcharge is the small
\* one, which of the answers it is making no difference to when an
\* invocation ends
NextSettling ==
    \/ \E t \in {"create", "transfer"} : SelectTab(t)
    \/ \E r \in RecipientStrings : EditRecipient(r)
    \/ \E a \in AmountStrings : EditAmount(a)
    \/ ClickCreateAccount(<<"0", "x", "a">>)
    \/ CreateAccountResolve
    \/ CreateAccountReject
    \/ ClickTransfer
    \/ \E i \in InvIds : DeriveAccount(i)
    \/ \E i \in InvIds : ConstructPermit(i)
    \/ \E i \in InvIds : SignPermit(i, FALSE)
    \/ \E i \in InvIds : QuerySurcharge(i, BFromInt(50000))
    \/ \E i \in InvIds : QueryFees(i)
    \/ \E i \in InvIds, e \in GasEstimates : EstimateGas(i, e)
    \/ \E i \in InvIds : SendUserOperation(i)
    \/ \E i \in InvIds, ok \in BOOLEAN : ExecuteUserOp(i, ok)
    \/ \E i \in InvIds : WaitForReceipt(i)
    \/ \E i \in InvIds : ReadBalanceBefore(i)
    \/ \E i \in InvIds : ReadBalanceAfter(i)
    \/ \E i \in InvIds : Reject(i)
    \/ \E o \in BagToSet(orphans), ok \in BOOLEAN : ExecuteOrphan(o, ok)
    \/ Deposit

\* the page, with every network call resolving or rejecting in the end
FairSpec == Init /\ [][NextSettling]_vars /\ WF_vars(NetworkCallSettles)

(*************************************************************************)
(* transferUSDC called directly, without the page: it is an exported     *)
(* function, and any caller may invoke it while another invocation runs. *)
(* The accounts hold USDC when the calls are made.                       *)
(*************************************************************************)
DirectRecipients == {"0xR"}

DirectAmounts == {10500000}

InitDirect ==
    /\ loading = FALSE
    /\ account = Null
    /\ recipientAddress = ""
    /\ amount = <<>>
    /\ status = ""
    /\ tab = "create"
    /\ amountInWei = [input |-> <<>>, ok |-> FALSE, value |-> 0]
    /\ ca = IdleCa
    /\ tx = [i \in InvIds |-> IdleTx]
    /\ balanceOf = [a \in SmartAccounts |-> 3 * DepositAmount]
    /\ invocations = 0
    /\ submissions = 0
    /\ preFailures = 0
    /\ deposits = 0
    /\ orphans = EmptyBag

\* transferUSDC(privateKey, recipientAddress, amount), called by other code
CallTransferUSDC(privateKey, recipient, amt) ==
    /\ invocations < MaxTransfers
    /\ \E i \in InvIds : ~InFlight(i)
    /\ TransferUSDCGuard(privateKey)
    /\ tx' = [tx EXCEPT ![FreeSlot] =
                [Started(privateKey, recipient, amt) EXCEPT !.direct = TRUE]]
    /\ invocations' = invocations + 1
    /\ UNCHANGED <<loading, account, recipientAddress, amount, status, tab,
                   amountInWei, ca, balanceOf, submissions, preFailures,
                   deposits, orphans>>

NextDirect ==
    \/ \E k \in PrivateKeys, r \in DirectRecipients, a \in DirectAmounts :
          CallTransferUSDC(k, r, a)
    \/ \E i \in InvIds : DeriveAccount(i)
    \/ \E i \in InvIds : ConstructPermit(i)
    \/ \E i \in InvIds : SignPermit(i, FALSE)
    \/ \E i \in InvIds : QuerySurcharge(i, BFromInt(50000))
    \/ \E i \in InvIds : QueryFees(i)
    \/ \E i \in InvIds, e \in GasEstimates : EstimateGas(i, e)
    \/ \E i \in InvIds : SendUserOperation(i)
    \/ \E i \in InvIds, ok \in BOOLEAN : ExecuteUserOp(i, ok)
    \/ \E i \in InvIds : WaitForReceipt(i)
    \/ \E i \in InvIds : ReadBalanceBefore(i)
    \/ \E i \in InvIds : ReadBalanceAfter(i)
    \/ \E i \in InvIds : Reject(i)
    \/ \E o \in BagToSet(orphans), ok \in BOOLEAN : ExecuteOrphan(o, ok)

SpecDirect == InitDirect /\ [][NextDirect]_vars

(*************************************************************************)
(* Properties.                                                           *)
(*************************************************************************)
Has(steps, x) == \E k \in 1..Len(steps) : steps[k] = x

TypeOK ==
    /\ loading \in BOOLEAN
    /\ tab \in {"create", "transfer"}
    /\ amount \in AmountStrings
    /\ recipientAddress \in RecipientStrings
    /\ \A i \in InvIds :
          /\ tx[i].pc \in Awaits \cup {"idle", "returned", "rejected"}
          /\ tx[i].op \in {"none", "pending", "success", "reverted", "unknown"}
          /\ tx[i].op = "pending" => InFlight(i)
    /\ IsABag(orphans)
    /\ BagCardinality(orphans) <= submissions

\* C1: an invocation of transferUSDC that was rejected at a step before
\* the submission has submitted no user operation; an operation is only
\* submitted by an invocation that completed every earlier step; so the
\* calls that failed before submitting and the submissions together never
\* outnumber the calls made (a failure and its retry submit at most once).
C1_NoSubmissionBeforeEarlierStepsSucceed ==
    /\ \A i \in InvIds :
          /\ (tx[i].pc = "rejected" /\ tx[i].failedAt \in PreSubmissionSteps)
                => tx[i].op = "none"
          /\ tx[i].op # "none"
                => \A st \in PreSubmissionSteps : Has(tx[i].steps, st)
    /\ submissions + preFailures <= invocations

\* a call failed at the gas estimation, and its retry submitted
C1_Witness ==
    /\ preFailures >= 1
    /\ submissions = 1
    /\ \E i \in InvIds : tx[i].op = "pending"

\* C2: the paymasterPostOpGasLimit of the submitted user operation is at
\* least the additionalGasCharge the paymaster reported, and is the larger
\* of that charge and the bundler's estimate.
C2_PostOpLimitCoversSurcharge ==
    \A i \in InvIds :
        tx[i].sendRequest.sent =>
            /\ BLeq(tx[i].additionalGasCharge,
                    tx[i].sendRequest.paymasterPostOpGasLimit)
            /\ tx[i].sendRequest.paymasterPostOpGasLimit =
                   IF BLess(tx[i].paymasterPostOpGasLimit,
                            tx[i].additionalGasCharge)
                   THEN tx[i].additionalGasCharge
                   ELSE tx[i].paymasterPostOpGasLimit

\* C3: the balance used as balance before is read before the user
\* operation is submitted, and the balance used as balance after is read
\* after the receipt was obtained.
C3_BalanceReadsBracketSubmission ==
    \A i \in InvIds :
        /\ (Has(tx[i].steps, "balanceBefore") /\ Has(tx[i].steps, "send"))
              => PosIn(tx[i].steps, "balanceBefore") < PosIn(tx[i].steps, "send")
        /\ Has(tx[i].steps, "balanceAfter")
              => /\ Has(tx[i].steps, "wait")
                 /\ PosIn(tx[i].steps, "wait") < PosIn(tx[i].steps, "balanceAfter")

\* C4: after a successful transfer of a positive amount with no other
\* transfer touching the account, usdcConsumed is the balance before the
\* operation minus the balance after it minus the amount, and is >= 0.
C4_UsdcConsumedIsTheFee ==
    \A i \in InvIds :
        (/\ tx[i].pc = "returned"
         /\ tx[i].receipt.success
         /\ tx[i].amount > 0
         /\ ~tx[i].touched)
        => /\ tx[i].usdcConsumed =
                  tx[i].balanceAtStart - tx[i].balanceAtEnd - tx[i].amount
           /\ tx[i].usdcConsumed >= 0

\* C5: at most one invocation of transferUSDC is in flight; while one is,
\* loading is set, the Transfer USDC button is disabled and no
\* createAccount runs.
C5_OneTransferInFlight ==
    /\ Cardinality({i \in InvIds : InFlight(i)}) <= 1
    /\ (\E i \in InvIds : InFlight(i))
          => (loading /\ TransferDisabled /\ ca.pc = "idle")

\* a transfer waits for its receipt while both form fields are filled
C5_Witness ==
    \E i \in InvIds :
        tx[i].pc = "wait" /\ recipientAddress # "" /\ amount # <<>>

\* C6: the transfer controls are reachable, and transfer and transferUSDC
\* run, only with a stored account record; the record holds a key that
\* generatePrivateKey returned, the owner of that key and the smart account
\* derived from that owner, and none is stored while createAccount still
\* awaits the derivation; transferUSDC is given the stored private key.
C6_TransferNeedsStoredAccount ==
    /\ tab = "transfer" => account # Null
    /\ amountInWei.input # <<>> => account # Null
    /\ \A i \in InvIds :
          /\ tx[i].pc # "idle" => account # Null
          /\ InFlight(i) =>
                /\ tx[i].privateKey # <<>>
                /\ tx[i].privateKey = account[1].privateKey
    /\ ca.pc = "deriving" => account = Null
    /\ account # Null =>
          /\ account[1].privateKey \in PrivateKeys
          /\ account[1].owner = privateKeyToAccount(account[1].privateKey)
          /\ account[1].address =
                 toEcdsaKernelSmartAccount(account[1].owner, KernelVersion)

\* a transfer was started with the stored key
C6_Witness ==
    \E i \in InvIds :
        tx[i].pc = "derive" /\ account # Null
        /\ tx[i].privateKey = account[1].privateKey

\* C7: the value of the signed permit and the ceiling packed in the
\* paymaster data are both 1000000, whatever the amount transferred.
C7_PermitAndCeilingAreOneUsdc ==
    \A i \in InvIds :
        /\ (InFlight(i) /\ Has(tx[i].steps, "permit"))
              => tx[i].permitData.value = 1000000
        /\ (InFlight(i) /\ Has(tx[i].steps, "sign")) =>
              /\ FromBytes(SubSeq(tx[i].paymasterData, AddressLen + 2,
                                  AddressLen + 1 + WordLen)) = 1000000
              /\ tx[i].permitData.value <= 1000000

\* the permit of a transfer of 10.5 USDC was signed and packed
C7_Witness ==
    \E i \in InvIds :
        InFlight(i) /\ Has(tx[i].steps, "sign") /\ tx[i].amount = 10500000

\* C8: the paymaster data is one zero byte, the USDC address, the ceiling
\* as 32 bytes and the raw signature of the permit, without any ERC-6492
\* wrapper; estimation and submission are given that same paymaster data.
C8_PaymasterDataLayout ==
    \A i \in InvIds :
        /\ (InFlight(i) /\ Has(tx[i].steps, "sign")) =>
              /\ tx[i].permitSignature =
                     SignTypedData(tx[i].privateKey, tx[i].permitData)
              /\ tx[i].paymasterData =
                     <<0>> \o ARBITRUM_SEPOLIA_USDC \o ToBytes(1000000, 32)
                     \o SignTypedData(tx[i].privateKey, tx[i].permitData)
        /\ tx[i].estimateRequest.sent =>
              tx[i].estimateRequest.paymasterData = tx[i].paymasterData
        /\ tx[i].sendRequest.sent =>
              tx[i].sendRequest.paymasterData = tx[i].paymasterData
        /\ (tx[i].estimateRequest.sent /\ tx[i].sendRequest.sent) =>
              tx[i].estimateRequest.paymasterData =
                  tx[i].sendRequest.paymasterData

\* an operation was submitted whose permit signature came back wrapped
C8_Witness ==
    \E i \in InvIds :
        /\ tx[i].sendRequest.sent
        /\ tx[i].estimateRequest.sent
        /\ isErc6492Signature(tx[i].wrappedPermitSignature)

\* C9: transferUSDC is never invoked with amount 0.
C9_NoZeroValueTransfer ==
    \A i \in InvIds : tx[i].pc # "idle" => tx[i].amount # 0

\* C10: the conversion of a valid amount string does not fail, gives the
\* amount times 10^6, and that integer formatted with 6 decimals has the
\* decimal value of the string.
C10_AmountConversionExact ==
    amountInWei.input # <<>> =>
        /\ amountInWei.ok
        /\ amountInWei.value = ExactMicro(amountInWei.input)
        /\ ExactMicro(formatUnits(amountInWei.value, 6))
               = ExactMicro(amountInWei.input)

\* C11: the stored smart-account address is the one derived from the stored
\* private key with the fixed version, and an invocation of transferUSDC
\* derives that same address from the key it is given: it is the owner of
\* the permit and the account of the estimated and of the submitted user
\* operation.
C11_TransferDerivesStoredAddress ==
    /\ account # Null =>
          account[1].address =
              toEcdsaKernelSmartAccount(
                  privateKeyToAccount(account[1].privateKey), KernelVersion)
    /\ \A i \in InvIds :
          /\ (InFlight(i) /\ Has(tx[i].steps, "derive"))
                => tx[i].account = account[1].address
          /\ (InFlight(i) /\ Has(tx[i].steps, "permit"))
                => tx[i].permitData.ownerAddress = account[1].address
          /\ tx[i].estimateRequest.sent
                => tx[i].estimateRequest.account = account[1].address
          /\ tx[i].sendRequest.sent
                => tx[i].sendRequest.account = account[1].address

\* a user operation of the account created for key 0xb was submitted
C11_Witness ==
    /\ account # Null
    /\ account[1].privateKey = <<"0", "x", "b">>
    /\ \E i \in InvIds :
          /\ tx[i].sendRequest.sent
          /\ tx[i].permitData.ownerAddress = account[1].address
          /\ tx[i].sendRequest.account = account[1].address

NoStepTwice(steps) ==
    \A j, k \in 1..Len(steps) : steps[j] = steps[k] => j = k

\* C12: a rejection of the awaited call of an invocation of transferUSDC
\* ends that invocation at that step, which is not run again, and the
\* status becomes the error prefix of transfer followed by the message of
\* the error; no invocation runs a step twice, and a rejected invocation
\* runs no further step; a rejection of the derivation of createAccount
\* sets the error status of createAccount with the message and leaves the
\* account record absent; a conversion that throws is reported alike.
C12_FailureCaughtOnceNoRetry ==
    [][/\ \A i \in InvIds :
             /\ NoStepTwice(tx'[i].steps)
             /\ (InFlight(i)
                  /\ status' = "Error during transfer: "
                                   \o ErrorMessage(tx[i].pc))
                   => /\ tx'[i].pc = "rejected"
                      /\ tx'[i].failedAt = tx[i].pc
                      /\ tx'[i].steps = tx[i].steps
                      /\ ~Has(tx'[i].steps, tx[i].pc)
             /\ (InFlight(i) /\ tx'[i].pc = "rejected")
                   => status' = "Error during transfer: "
                                    \o ErrorMessage(tx[i].pc)
             /\ tx[i].pc = "rejected"
                   => \/ tx'[i] = tx[i]
                      \/ /\ invocations' = invocations + 1
                         /\ tx'[i].pc = AwaitOrder[1]
                         /\ tx'[i].steps = <<>>
       /\ (ca.pc = "deriving" /\ account' = Null)
             => /\ status' = "Error creating smart account: "
                                 \o ErrorMessage("derive")
                /\ account = Null
                /\ ca'.pc = "idle"
       /\ (amountInWei' # amountInWei /\ ~amountInWei'.ok)
             => /\ status' = "Error during transfer: " \o ConversionError
                /\ UNCHANGED <<tx, invocations, submissions, account>>
      ]_vars

\* the receipt poll of a transfer was rejected and the error is shown
C12_Witness ==
    \E i \in InvIds :
        /\ tx[i].pc = "rejected"
        /\ tx[i].failedAt = "wait"
        /\ status = "Error during transfer: " \o ErrorMessage("wait")
        /\ ~loading

IsPrefix(a, b) == Len(a) <= Len(b) /\ SubSeq(b, 1, Len(a)) = a

\* the ten steps in the order they are listed: derive, build the call,
\* construct, sign and unwrap the permit, pack, surcharge, fees, estimate,
\* submit, poll, compute
ListedOrder ==
    <<"derive", "call", "permit", "sign", "unwrap", "pack", "surcharge",
      "fees", "estimate", "send", "wait", "consumed">>

IsListed(x) == \E k \in 1..Len(ListedOrder) : ListedOrder[k] = x

\* the order of the statements of transferUSDC
CodeOrder ==
    <<"derive", "permit", "sign", "unwrap", "call", "pack", "surcharge",
      "fees", "estimate", "send", "wait", "readBefore", "readAfter",
      "consumed">>

\* C13 as stated: what an invocation has done so far is an initial part of
\* the listed order, in which the transfer call is built before the permit
\* is constructed and signed.
C13_StepsInListedOrder ==
    \A i \in InvIds :
        IsPrefix(SelectSeq(Performed(tx[i].steps), IsListed), ListedOrder)

\* C13 as amended: what an invocation has done so far is an initial part
\* of derive, construct the permit, sign it, unwrap the signature, build
\* the transfer call, pack the paymaster data, surcharge, fees, estimate,
\* submit, poll, read the balance twice, compute usdcConsumed; and the one
\* call it awaits is the one that follows the awaits it completed.
C13_StepsInCodeOrder ==
    \A i \in InvIds :
        /\ IsPrefix(Performed(tx[i].steps), CodeOrder)
        /\ IsPrefix(tx[i].steps, AwaitOrder)
        /\ InFlight(i) => tx[i].pc = AwaitOrder[Len(tx[i].steps) + 1]
        /\ tx[i].pc = "returned" => tx[i].steps = AwaitOrder

\* an invocation has built its call and packed its paymaster data
C13_Witness ==
    \E i \in InvIds :
        /\ InFlight(i)
        /\ Has(Performed(tx[i].steps), "call")
        /\ Has(Performed(tx[i].steps), "pack")
        /\ ~Has(Performed(tx[i].steps), "surcharge")

\* C14: transferUSDC holds no guard of its own: whenever a record is free,
\* a direct call is accepted for every key, also for the key of an
\* invocation that is in flight; so two invocations for one key run side
\* by side, each past its signature, estimate and submission.
C14_TransferUSDCUnguarded ==
    (invocations < MaxTransfers /\ \E i \in InvIds : ~InFlight(i))
    => \A k \in PrivateKeys, r \in DirectRecipients, a \in DirectAmounts :
           ENABLED CallTransferUSDC(k, r, a)

\* two invocations for one key ran side by side and both submitted; the
\* operation of the one was executed between the two balance reads of the
\* other, whose usdcConsumed is therefore not the fee it paid
C14_Witness ==
    \E i, j \in InvIds :
        /\ i # j
        /\ tx[i].pc = "returned" /\ tx[i].receipt.success /\ tx[i].touched
        /\ tx[j].pc = "wait" /\ tx[j].op \in {"success", "reverted"}
        /\ tx[j].account = tx[i].account
        /\ tx[i].usdcBalanceBefore - tx[i].usdcBalanceAfter
               = IF tx[j].op = "success" THEN tx[j].amount + GasFeeUsdc
                 ELSE GasFeeUsdc
        /\ tx[i].usdcConsumed # GasFeeUsdc

\* the steps of transferUSDC that come after sendUserOperation
PostSubmissionSteps == {"wait", "balanceBefore", "balanceAfter"}

\* C15: when the awaited call of a transfer started from the page rejects,
\* before or after the submission, the status becomes the same error
\* prefix followed by the message; after the submission the recipient and
\* amount fields are kept, loading is cleared so that the Transfer USDC
\* button is enabled again for the fields that were submitted, and nothing
\* is reconciled: the balance and the count of submissions are untouched
\* and an operation that was not executed yet stays with the bundler.
C15_PostSubmissionFailureNotReconciled ==
    [][\A i \in InvIds :
          (InFlight(i) /\ ~tx[i].direct /\ tx'[i].pc = "rejected") =>
              /\ status' = "Error during transfer: "
                               \o ErrorMessage(tx[i].pc)
              /\ tx[i].pc \in PostSubmissionSteps =>
                    /\ tx[i].op # "none"
                    /\ recipientAddress' = recipientAddress
                    /\ amount' = amount
                    /\ ~loading'
                    /\ (recipientAddress # "" /\ amount # <<>>)
                          => ~TransferDisabled'
                    /\ balanceOf' = balanceOf
                    /\ submissions' = submissions
                    /\ tx[i].op = "pending" =>
                          BagIn(<<tx[i].account, tx[i].recipient,
                                  tx[i].amount>>, orphans')
      ]_vars

\* the receipt poll of a transfer was rejected, the transfer was invoked
\* again with the same recipient and amount, and the bundler now holds two
\* user operations for that one request
C15_Witness ==
    /\ submissions = 2
    /\ \E i \in InvIds :
          /\ tx[i].op = "pending"
          /\ BagIn(<<tx[i].account, tx[i].recipient, tx[i].amount>>, orphans)

\* C16: once an account record is stored, no step starts a createAccount
\* or changes the record (address, owner, private key); a createAccount in
\* flight is only ended, by its own resolution or rejection, never joined
\* or replaced by a second one, and while it runs the Create Smart Account
\* button is disabled and no account is stored.
C16_AccountCreatedOnce ==
    [][/\ account # Null =>
             /\ account' = account
             /\ ca.pc = "idle"
             /\ ca' = ca
       /\ ca.pc = "deriving" => (ca' = ca \/ ca' = IdleCa)
       /\ ca'.pc = "deriving" =>
             /\ CreateDisabled'
             /\ account' = Null
             /\ ca.pc = "idle" => (CreateButtonShown /\ ~CreateDisabled)
      ]_vars

\* with the account stored, a transfer was made and the Create Account tab
\* is shown again, idle
C16_Witness ==
    /\ account # Null
    /\ tab = "create"
    /\ ~loading
    /\ \E i \in InvIds : tx[i].pc = "returned"

\* some createAccount or some transfer of the page is in flight
HandlerInFlight ==
    ca.pc = "deriving" \/ \E i \in InvIds : InFlight(i) /\ ~tx[i].direct

\* C17: loading is set only while a createAccount or a transfer is in
\* flight; the step that ends an invocation, by a receipt of either
\* outcome or by a rejection at any await, leaves loading cleared; loading
\* is cleared by no other step, so a transfer that stays at its receipt
\* poll keeps loading set and the controls disabled; and when every
\* network call resolves or rejects in the end, loading set leads to
\* loading cleared.
C17_LoadingFollowsInFlight ==
    /\ [](loading => HandlerInFlight)
    /\ [][/\ (HandlerInFlight /\ ~HandlerInFlight') => ~loading'
          /\ (loading /\ ~loading') => (HandlerInFlight /\ ~HandlerInFlight')
          /\ \A i \in InvIds :
                (tx[i].pc = "wait" /\ tx'[i].pc = "wait") =>
                    (loading' /\ TransferDisabled' /\ CreateDisabled')
         ]_vars
    /\ (loading ~> ~loading)

\* a transfer ended with a receipt of a reverted operation, and loading is
\* cleared
C17_Witness ==
    /\ ~loading
    /\ \E i \in InvIds :
          tx[i].pc = "returned" /\ ~tx[i].receipt.success

\* C18: the step that ends a transfer of the page empties the recipient and
\* amount fields if transferUSDC returned a receipt with success true, and
\* leaves both as they are if it returned a receipt with success false
\* (reported as a failed transfer) or rejected; it never changes the stored
\* account; a conversion that throws leaves fields and account alone too;
\* and no other step changes both fields at once.
C18_FormClearedOnlyOnSuccess ==
    [][/\ \A i \in InvIds :
             (InFlight(i) /\ ~tx[i].direct /\ ~InFlight(i)') =>
                 /\ account' = account
                 /\ tx'[i].pc \in {"returned", "rejected"}
                 /\ (tx'[i].pc = "returned" /\ tx'[i].receipt.success) =>
                       /\ recipientAddress' = ""
                       /\ amount' = <<>>
                       /\ status' = "Transfer completed successfully!"
                 /\ (tx'[i].pc = "returned" /\ ~tx'[i].receipt.success) =>
                       /\ recipientAddress' = recipientAddress
                       /\ amount' = amount
                       /\ status' = "Transfer failed. Please try again."
                 /\ tx'[i].pc = "rejected" =>
                       /\ recipientAddress' = recipientAddress
                       /\ amount' = amount
       /\ (amountInWei' # amountInWei /\ ~amountInWei'.ok) =>
             UNCHANGED <<recipientAddress, amount, account>>
       /\ (recipientAddress' # recipientAddress /\ amount' # amount) =>
             \E i \in InvIds :
                 /\ InFlight(i)
                 /\ tx'[i].pc = "returned"
                 /\ tx'[i].receipt.success
      ]_vars

\* transferUSDC returned the receipt of a reverted operation, and the form
\* still holds the recipient and the amount
C18_Witness ==
    /\ recipientAddress # ""
    /\ amount # <<>>
    /\ status = "Transfer failed. Please try again."
    /\ \E i \in InvIds :
          tx[i].pc = "returned" /\ ~tx[i].receipt.success

=============================================================================
